---- MODULE Spec2Model ----
(***************************************************************************)
(* UBX protocol handler of PyGPSClient (pygpsclient/ubx_handler.py).       *)
(*                                                                         *)
(* The UBXHandler object is the record `self`; one call of process_data    *)
(* is one step.  The collaborators of the handler (banner, map, satellite  *)
(* view, graph view, console, settings) are the variables `calls` (what    *)
(* the latest call of process_data asked of them, in order) and            *)
(* `settings` (what get_settings() answers).  The serial port given to     *)
(* poll_ubx_config is the variable `serial`: everything written to it.     *)
(***************************************************************************)
EXTENDS Integers, Sequences, FiniteSets, TLC

\* Number of calls (of process_data and of poll_ubx_config together) in one
\* behaviour.
MaxFrames == 2
\* Largest satellite count (numCh) of a NAV-SVINFO message.
MaxSats == 2

VARIABLES
    self,       \* the UBXHandler object: its attributes
    settings,   \* frm_settings.get_settings(): [raw, webmap]
    calls,      \* collaborator calls made by the latest process_data, in order
    trace,      \* the methods the latest process_data invoked, in order
    result,     \* how the latest process_data ended: "returned" or the exception
    last_data,  \* the frame the latest process_data was given
    repeated,   \* whether that frame is the one the call before it was given
    nframes,    \* frames processed so far
    serial      \* what poll_ubx_config has written to the serial port, in order

vars == <<self, settings, calls, trace, result, last_data, repeated, nframes,
          serial>>

(***************************************************************************)
(* Numbers.  Python's true division yields a float; a stored number is the *)
(* reduced fraction <<numerator, denominator>>, so that 250 / 100 and      *)
(* 5 / 2 are the same value and 999 is not 999 / 100.                      *)
(***************************************************************************)
RECURSIVE GCD(_, _)
GCD(a, b) == IF b = 0 THEN a ELSE GCD(b, a % b)

Abs(n) == IF n < 0 THEN 0 - n ELSE n

Num(n) == <<n, 1>>

TrueDiv(n, d) == LET g == GCD(Abs(n), d) IN <<n \div g, d \div g>>

(***************************************************************************)
(* pyubx2 helpers the handler calls.                                       *)
(***************************************************************************)
\* GPS time of week in milliseconds to the UTC time of day <<h, m, s>>.
itow2utc(iTOW) ==
    LET secs == ((iTOW \div 1000) - (35 - 19)) % 86400
    IN  <<secs \div 3600, (secs % 3600) \div 60, secs % 60>>

\* Fix-type code to fix string.
gpsfix2str(fix) ==
    CASE fix = 1 -> "dead-reckoning"
      [] fix = 2 -> "2D"
      [] fix = 3 -> "3D"
      [] fix = 4 -> "GPS+dead-reckoning"
      [] fix = 5 -> "time-only"
      [] OTHER -> "no-fix"

\* The configurable-message catalog: class+id -> target message identity,
\* in iteration order.
CatalogKeys == << <<1, 2>>, <<1, 7>> >>

UBX_CONFIG_MESSAGES ==
    [k \in {CatalogKeys[i] : i \in 1..Len(CatalogKeys)} |->
        CASE k = <<1, 2>> -> "NAV-POSLLH"
          [] k = <<1, 7>> -> "NAV-PVT"]

(***************************************************************************)
(* Parsed messages.  A message is the record of its attributes (raw        *)
(* integers, unscaled).  `bad` names the one attribute whose extraction or *)
(* conversion fails (<<"", 0>>: none; the index is the repeated-record     *)
(* number, 0 for a plain attribute) and `err` the exception the failure    *)
(* raises: AttributeError when the attribute is missing from the message,  *)
(* ValueError when a conversion function (itow2utc, gpsfix2str, int)       *)
(* rejects its value.  Dividing a parsed integer by a constant does not    *)
(* raise.                                                                  *)
(***************************************************************************)
Variants == {1, 2}

Sound == [bad |-> <<"", 0>>, err |-> "none"]
Faulty(fld, i, e) == [bad |-> <<fld, i>>, err |-> e]

Raw ==
    [iTOW    |-> <<3677000, 7338000>>,
     lat     |-> <<473397625, 515074560>>,
     lon     |-> <<85354210, 1278000>>,
     hMSL    |-> <<412345, 35000>>,
     hAcc    |-> <<1500, 2750>>,
     vAcc    |-> <<2000, 3125>>,
     pDOP    |-> <<250, 999>>,
     hDOP    |-> <<120, 155>>,
     vDOP    |-> <<180, 233>>,
     numSV   |-> <<7, 12>>,
     gSpeed  |-> <<150, 1234>>,
     heading |-> <<4500000, 27012345>>,
     fix     |-> <<3, 2>>]

NAV_POSLLH(v) ==
    [identity |-> "NAV-POSLLH", iTOW |-> Raw.iTOW[v], lon |-> Raw.lon[v],
     lat |-> Raw.lat[v], hMSL |-> Raw.hMSL[v], hAcc |-> Raw.hAcc[v],
     vAcc |-> Raw.vAcc[v]]

NAV_PVT(v) ==
    [identity |-> "NAV-PVT", iTOW |-> Raw.iTOW[v], lon |-> Raw.lon[v],
     lat |-> Raw.lat[v], hMSL |-> Raw.hMSL[v], hAcc |-> Raw.hAcc[v],
     vAcc |-> Raw.vAcc[v], pDOP |-> Raw.pDOP[v], numSV |-> Raw.numSV[v],
     gSpeed |-> Raw.gSpeed[v], headMot |-> Raw.heading[v],
     fixType |-> Raw.fix[v]]

NAV_VELNED(v) ==
    [identity |-> "NAV-VELNED", heading |-> Raw.heading[v],
     gSpeed |-> Raw.gSpeed[v]]

NAV_SOL(v) ==
    [identity |-> "NAV-SOL", pDOP |-> Raw.pDOP[v], numSV |-> Raw.numSV[v],
     gpsFix |-> Raw.fix[v]]

NAV_DOP(v) ==
    [identity |-> "NAV-DOP", pDOP |-> Raw.pDOP[v], hDOP |-> Raw.hDOP[v],
     vDOP |-> Raw.vDOP[v]]

\* Repeated record i of a NAV-SVINFO message: svid_i, elev_i, azim_i, cno_i.
SvRecord(v, i) == [svid |-> 10 * v + i, elev |-> 15 * i + v, azim |-> 90 * i + v,
                   cno |-> 30 + i + v]

NAV_SVINFO(v, n) ==
    [identity |-> "NAV-SVINFO", numCh |-> n, sv |-> [i \in 1..n |-> SvRecord(v, i)]]

CFG_MSG(k, v) ==
    [identity |-> "CFG-MSG", msgClass |-> k[1], msgID |-> k[2], rateDDC |-> v,
     rateUART1 |-> v + 1, rateUART2 |-> 0, rateUSB |-> v, rateSPI |-> 0,
     reserved |-> 0]

CFG_INF(v) ==
    [identity |-> "CFG-INF", infMsgMaskDDC |-> v, infMsgMaskUART1 |-> v + 2,
     infMsgMaskUART2 |-> 0, infMsgMaskUSB |-> 7 * v, infMsgMaskSPI |-> 0]

CFG_PRT(v) ==
    [identity |-> "CFG-PRT", mode |-> 2240 + v, baudRate |-> 9600 * v,
     inProtoMask |-> v, outProtoMask |-> 3]

\* A validly framed message no handler is registered for, and the marker the
\* parser yields for a class/id it does not know.
Unregistered == {[identity |-> "NAV-CLOCK", iTOW |-> Raw.iTOW[1]],
                 [identity |-> "UNKNOWN"]}

\* The attributes each handler reads, in the order it reads them.
Attrs(identity) ==
    CASE identity = "NAV-POSLLH" -> <<"iTOW", "lat", "lon", "hMSL", "hAcc", "vAcc">>
      [] identity = "NAV-PVT" -> <<"iTOW", "lat", "lon", "hMSL", "hAcc", "vAcc",
                                   "pDOP", "numSV", "gSpeed", "headMot", "fixType">>
      [] identity = "NAV-VELNED" -> <<"heading", "gSpeed">>
      [] identity = "NAV-SOL" -> <<"pDOP", "numSV", "gpsFix">>
      [] identity = "NAV-DOP" -> <<"pDOP", "hDOP", "vDOP">>
      [] identity = "NAV-SVINFO" -> <<"numCh">>
      [] identity = "CFG-MSG" -> <<"msgClass", "msgID", "rateDDC", "rateUART1",
                                   "rateUART2", "rateUSB", "rateSPI", "reserved">>
      [] identity = "CFG-INF" -> <<"infMsgMaskDDC", "infMsgMaskUART1",
                                   "infMsgMaskUART2", "infMsgMaskUSB",
                                   "infMsgMaskSPI">>
      [] identity = "CFG-PRT" -> <<"mode", "baudRate", "inProtoMask", "outProtoMask">>
      [] OTHER -> <<>>

Range(seq) == {seq[i] : i \in 1..Len(seq)}

(***************************************************************************)
(* The frames process_data is given.  A frame is the raw bytes: whether    *)
(* its sync marker and its checksum are right, and the message its         *)
(* payload decodes to.                                                     *)
(***************************************************************************)
SoundMessages ==
    {NAV_POSLLH(v) : v \in Variants} \cup {NAV_PVT(v) : v \in Variants}
    \cup {NAV_VELNED(v) : v \in Variants} \cup {NAV_SOL(v) : v \in Variants}
    \cup {NAV_DOP(v) : v \in Variants}
    \cup {NAV_SVINFO(v, n) : v \in Variants, n \in 0..MaxSats}
    \cup {CFG_MSG(k, v) : k \in Range(CatalogKeys), v \in Variants}
    \cup {CFG_INF(v) : v \in Variants} \cup {CFG_PRT(v) : v \in Variants}
    \cup Unregistered

\* The attributes a handler hands to a conversion function.
Converted(identity) ==
    CASE identity = "NAV-POSLLH" -> {"iTOW"}
      [] identity = "NAV-PVT" -> {"iTOW", "fixType"}
      [] identity = "NAV-SOL" -> {"gpsFix"}
      [] identity = "NAV-SVINFO" -> {"numCh"}
      [] OTHER -> {}

\* The attributes a missing-attribute fault is injected in.  A statement that
\* reads several attributes (the tuple of a config handler, the record of the
\* satellite handler) fails the same way whichever of them is missing: its
\* first and its last attribute stand for all of them.
FaultSites(identity) ==
    CASE identity = "CFG-MSG" -> {"msgClass", "msgID", "rateDDC", "reserved"}
      [] identity = "CFG-INF" -> {"infMsgMaskDDC", "infMsgMaskSPI"}
      [] identity = "CFG-PRT" -> {"mode", "outProtoMask"}
      [] OTHER -> Range(Attrs(identity))

\* The message m with one failing attribute, in every way.
OneFault(m) ==
    {m @@ Faulty(a, 0, "AttributeError") : a \in FaultSites(m.identity)}
    \cup {m @@ Faulty(a, 0, "ValueError") : a \in Converted(m.identity)}
    \cup IF m.identity = "NAV-SVINFO"
         THEN {m @@ Faulty(a, i, "AttributeError") :
                 a \in {"svid", "cno"}, i \in 1..m.numCh}
         ELSE {}

FaultyMessages ==
    UNION {OneFault(m) :
            m \in {NAV_POSLLH(2), NAV_PVT(2), NAV_VELNED(2), NAV_SOL(2), NAV_DOP(2),
                   CFG_INF(2), CFG_PRT(2), CFG_MSG(CatalogKeys[1], 2)}
                  \cup {NAV_SVINFO(2, MaxSats)}}

\* A CFG-MSG response whose class+id is no key of the catalog.
Uncatalogued == {CFG_MSG(<<240, 9>>, 1) @@ Sound}

Messages ==
    {m @@ Sound : m \in SoundMessages} \cup FaultyMessages \cup Uncatalogued

Frame(hdr, ck, msg) == [hdr |-> hdr, ck |-> ck, msg |-> msg]

Frames ==
    {Frame(TRUE, TRUE, m) : m \in Messages}
    \cup {Frame(h, c, NAV_PVT(1) @@ Sound) : h, c \in BOOLEAN}

\* UBXMessage.parse(data, False): the message, or a framing error.
parse(data) ==
    IF data.hdr /\ data.ck
    THEN [exc |-> "none", msg |-> data.msg]
    ELSE [exc |-> "FramingError"]

(***************************************************************************)
(* Collaborator calls, as the collaborators see them.                      *)
(***************************************************************************)
update_banner(kwargs) == [fn |-> "update_banner", args |-> kwargs]

update_map(lat, lon, hacc, vacc, fix, center) ==
    [fn |-> "update_map", args |-> <<lat, lon, hacc, vacc, fix, center>>]

update_sats(data) == [fn |-> "update_sats", args |-> <<data>>]

update_graph(data, siv) == [fn |-> "update_graph", args |-> <<data, siv>>]

update_console(text) == [fn |-> "update_console", args |-> <<text>>]

\* str(x): the text of the raw bytes, or of the parsed message.
Str(type, x) == [type |-> type, of |-> x]

(***************************************************************************)
(* Statement-by-statement execution of a handler body.  A handler yields   *)
(* the object as it leaves it, the collaborator calls it made and the      *)
(* exception that escapes it ("none": it returned).                        *)
(***************************************************************************)
Raises(data, attr, i) == data.bad = <<attr, i>>

\* try: ... except ValueError: pass
Caught(exc) == IF exc = "ValueError" THEN "none" ELSE exc

\* self.<dst> = <conv>(data.<src>)
Step(dst, src, conv, den) == [dst |-> dst, src |-> src, conv |-> conv, den |-> den]

Convert(st, v) ==
    CASE st.conv = "itow2utc" -> itow2utc(v)
      [] st.conv = "div" -> TrueDiv(v, st.den)
      [] st.conv = "raw" -> Num(v)

\* Assignments that keep a field once a frame has set it.
RECURSIVE Assign_first_writer(_, _, _)
Assign_first_writer(s, data, steps) ==
    IF steps = <<>> THEN [self |-> s, exc |-> "none"]
    ELSE LET st == Head(steps)
         IN  IF Raises(data, st.src, 0)
             THEN [self |-> s, exc |-> data.err]
             ELSE Assign_first_writer(
                      IF s[st.dst] \in {Num(0), <<>>}
                      THEN [s EXCEPT ![st.dst] = Convert(st, data[st.src])]
                      ELSE s,
                      data, Tail(steps))

\* The assignments of `steps` in order, up to the first one that raises.
RECURSIVE Assign(_, _, _)
Assign(s, data, steps) ==
    IF steps = <<>> THEN [self |-> s, exc |-> "none"]
    ELSE LET st == Head(steps)
         IN  IF Raises(data, st.src, 0)
             THEN [self |-> s, exc |-> data.err]
             ELSE Assign([s EXCEPT ![st.dst] = Convert(st, data[st.src])],
                         data, Tail(steps))

\* A dict assignment that extends the stored tuple instead of replacing it.
PutAppending(d, k, v) ==
    [x \in (DOMAIN d) \cup {k} |->
        IF x = k THEN (IF k \in DOMAIN d THEN d[k] \o v ELSE v) ELSE d[x]]

\* d[k] = v on a dict.
Put(d, k, v) == [x \in (DOMAIN d) \cup {k} |-> IF x = k THEN v ELSE d[x]]

\* Whether reading the attributes `attrs` of the message raises.
AnyRaises(data, attrs) == \E a \in Range(attrs) : Raises(data, a, 0)

(***************************************************************************)
(* Config handlers.                                                        *)
(***************************************************************************)
\* A CFG-MSG handler that stores the rates under the message's own identity.
_process_CFG_MSG_own_key(data) ==
    IF AnyRaises(data, <<"msgClass", "msgID", "rateDDC", "rateUART1", "rateUART2",
                         "rateUSB", "rateSPI", "reserved">>)
    THEN [self |-> self, calls |-> <<>>, exc |-> data.err]
    ELSE LET rates == <<data.rateDDC, data.rateUART1, data.rateUART2,
                        data.rateUSB, data.rateSPI, data.reserved>>
         IN  [self |-> [self EXCEPT !.ubx_state = Put(@, data.identity, rates)],
              calls |-> <<>>, exc |-> "none"]

_process_CFG_MSG(data) ==
    IF AnyRaises(data, <<"msgClass", "msgID">>)
    THEN [self |-> self, calls |-> <<>>, exc |-> data.err]
    ELSE IF <<data.msgClass, data.msgID>> \notin DOMAIN UBX_CONFIG_MESSAGES
    THEN [self |-> self, calls |-> <<>>, exc |-> "KeyError"]
    ELSE IF AnyRaises(data, <<"rateDDC", "rateUART1", "rateUART2", "rateUSB",
                              "rateSPI", "reserved">>)
    THEN [self |-> self, calls |-> <<>>, exc |-> data.err]
    ELSE LET msgtype == UBX_CONFIG_MESSAGES[<<data.msgClass, data.msgID>>]
             rates == <<data.rateDDC, data.rateUART1, data.rateUART2,
                        data.rateUSB, data.rateSPI, data.reserved>>
         IN  [self |-> [self EXCEPT !.ubx_state = Put(@, msgtype, rates)],
              calls |-> <<>>, exc |-> "none"]

_process_CFG_INF(data) ==
    IF AnyRaises(data, <<"infMsgMaskDDC", "infMsgMaskUART1", "infMsgMaskUART2",
                         "infMsgMaskUSB", "infMsgMaskSPI">>)
    THEN [self |-> self, calls |-> <<>>, exc |-> data.err]
    ELSE LET cfg == <<data.infMsgMaskDDC, data.infMsgMaskUART1,
                      data.infMsgMaskUART2, data.infMsgMaskUSB,
                      data.infMsgMaskSPI>>
         IN  [self |-> [self EXCEPT !.ubx_state = Put(@, "CFG-INF", cfg)],
              calls |-> <<>>, exc |-> "none"]

_process_CFG_PRT(data) ==
    IF AnyRaises(data, <<"mode", "baudRate", "inProtoMask", "outProtoMask">>)
    THEN [self |-> self, calls |-> <<>>, exc |-> data.err]
    ELSE LET cfg == <<data.mode, data.baudRate, data.inProtoMask,
                      data.outProtoMask>>
         IN  [self |-> [self EXCEPT !.ubx_state = Put(@, "CFG-PRT", cfg)],
              calls |-> <<>>, exc |-> "none"]

(***************************************************************************)
(* Navigation handlers.                                                    *)
(***************************************************************************)
\* A map call that always centres the map, whatever the webmap setting.
MapCall_always_centred(s) == update_map(s.lat, s.lon, s.hacc, s.vacc, "3D", TRUE)

\* The map call both position handlers end with.
MapCall(s) ==
    IF settings.webmap
    THEN update_map(s.lat, s.lon, s.hacc, s.vacc, "3D", FALSE)
    ELSE update_map(s.lat, s.lon, s.hacc, s.vacc, "3D", TRUE)

\* The assignments of _process_NAV_POSLLH, in order.
POSLLH_assignments ==
    <<Step("utc", "iTOW", "itow2utc", 1),
      Step("lat", "lat", "div", 10000000),
      Step("lon", "lon", "div", 10000000),
      Step("alt", "hMSL", "div", 1000),
      Step("hacc", "hAcc", "div", 1000),
      Step("vacc", "vAcc", "div", 1000)>>

_process_NAV_POSLLH(data) ==
    LET r == Assign(self, data, POSLLH_assignments)
        s == r.self
    IN  IF r.exc # "none"
        THEN [self |-> s, calls |-> <<>>, exc |-> Caught(r.exc)]
        ELSE [self |-> s, exc |-> "none",
              calls |-> <<update_banner([time |-> s.utc, lat |-> s.lat,
                                         lon |-> s.lon, alt |-> s.alt,
                                         hacc |-> s.hacc, vacc |-> s.vacc]),
                          MapCall(s)>>]

\* _process_NAV_PVT scaling pDOP by 100 as the DOP and SOL handlers do.
PVT_assignments_pdop_scaled ==
    <<Step("utc", "iTOW", "itow2utc", 1),
      Step("lat", "lat", "div", 10000000),
      Step("lon", "lon", "div", 10000000),
      Step("alt", "hMSL", "div", 1000),
      Step("hacc", "hAcc", "div", 1000),
      Step("vacc", "vAcc", "div", 1000),
      Step("pdop", "pDOP", "div", 100),
      Step("sip", "numSV", "raw", 1),
      Step("speed", "gSpeed", "div", 100),
      Step("track", "headMot", "div", 100000)>>

\* The assignments of _process_NAV_PVT, in order.
PVT_assignments ==
    <<Step("utc", "iTOW", "itow2utc", 1),
      Step("lat", "lat", "div", 10000000),
      Step("lon", "lon", "div", 10000000),
      Step("alt", "hMSL", "div", 1000),
      Step("hacc", "hAcc", "div", 1000),
      Step("vacc", "vAcc", "div", 1000),
      Step("pdop", "pDOP", "raw", 1),
      Step("sip", "numSV", "raw", 1),
      Step("speed", "gSpeed", "div", 100),
      Step("track", "headMot", "div", 100000)>>

_process_NAV_PVT(data) ==
    LET r == Assign(self, data, PVT_assignments)
        s == r.self
    IN  IF r.exc # "none"
        THEN [self |-> s, calls |-> <<>>, exc |-> Caught(r.exc)]
        ELSE IF Raises(data, "fixType", 0)
        THEN [self |-> s, calls |-> <<>>, exc |-> Caught(data.err)]
        ELSE LET fix == gpsfix2str(data.fixType)
             IN  [self |-> s, exc |-> "none",
                  calls |-> <<update_banner([time |-> s.utc, lat |-> s.lat,
                                             lon |-> s.lon, alt |-> s.alt,
                                             hacc |-> s.hacc, vacc |-> s.vacc,
                                             pdop |-> s.pdop, sip |-> s.sip,
                                             speed |-> s.speed, fix |-> fix,
                                             track |-> s.track]),
                              MapCall(s)>>]

\* The assignments of _process_NAV_VELNED, in order.
VELNED_assignments ==
    <<Step("track", "heading", "div", 100000),
      Step("speed", "gSpeed", "div", 100)>>

_process_NAV_VELNED(data) ==
    LET r == Assign(self, data, VELNED_assignments)
        s == r.self
    IN  IF r.exc # "none"
        THEN [self |-> s, calls |-> <<>>, exc |-> Caught(r.exc)]
        ELSE [self |-> s, exc |-> "none",
              calls |-> <<update_banner([speed |-> s.speed, track |-> s.track])>>]

\* The loop of _process_NAV_SVINFO from record i on: the list as far as it
\* got, and the exception that stopped it.
RECURSIVE AppendSats(_, _, _, _)
AppendSats(gsv_data, data, i, num_siv) ==
    IF i > num_siv THEN [gsv_data |-> gsv_data, exc |-> "none"]
    ELSE IF \E a \in {"svid", "elev", "azim", "cno"} : Raises(data, a, i)
    THEN [gsv_data |-> gsv_data, exc |-> data.err]
    ELSE AppendSats(Append(gsv_data, <<data.sv[i].svid, data.sv[i].elev,
                                       data.sv[i].azim, data.sv[i].cno>>),
                    data, i + 1, num_siv)

\* _process_NAV_SVINFO without the reset of the list: it appends to the old one.
_process_NAV_SVINFO_no_reset(data) ==
    IF Raises(data, "numCh", 0)
    THEN [self |-> self, calls |-> <<>>, exc |-> Caught(data.err)]
    ELSE LET num_siv == data.numCh
             r == AppendSats(self.gsv_data, data, 1, num_siv)
             s == [self EXCEPT !.gsv_data = r.gsv_data]
         IN  IF r.exc # "none"
             THEN [self |-> s, exc |-> Caught(r.exc),
                   calls |-> <<update_banner([siv |-> num_siv])>>]
             ELSE [self |-> s, exc |-> "none",
                   calls |-> <<update_banner([siv |-> num_siv]),
                               update_sats(s.gsv_data),
                               update_graph(s.gsv_data, num_siv)>>]

_process_NAV_SVINFO(data) ==
    LET s0 == [self EXCEPT !.gsv_data = <<>>]
    IN  IF Raises(data, "numCh", 0)
        THEN [self |-> s0, calls |-> <<>>, exc |-> Caught(data.err)]
        ELSE LET num_siv == data.numCh
                 r == AppendSats(s0.gsv_data, data, 1, num_siv)
                 s == [s0 EXCEPT !.gsv_data = r.gsv_data]
             IN  IF r.exc # "none"
                 THEN [self |-> s, exc |-> Caught(r.exc),
                       calls |-> <<update_banner([siv |-> num_siv])>>]
                 ELSE [self |-> s, exc |-> "none",
                       calls |-> <<update_banner([siv |-> num_siv]),
                                   update_sats(s.gsv_data),
                                   update_graph(s.gsv_data, num_siv)>>]

\* A NAV-SOL handler that stores its DOP as the horizontal DOP too.
SOL_assignments_with_hdop ==
    <<Step("pdop", "pDOP", "div", 100),
      Step("hdop", "pDOP", "div", 100),
      Step("sip", "numSV", "raw", 1)>>

\* The assignments of _process_NAV_SOL, in order.
SOL_assignments ==
    <<Step("pdop", "pDOP", "div", 100),
      Step("sip", "numSV", "raw", 1)>>

_process_NAV_SOL(data) ==
    LET r == Assign(self, data, SOL_assignments)
        s == r.self
    IN  IF r.exc # "none"
        THEN [self |-> s, calls |-> <<>>, exc |-> Caught(r.exc)]
        ELSE IF Raises(data, "gpsFix", 0)
        THEN [self |-> s, calls |-> <<>>, exc |-> Caught(data.err)]
        ELSE LET fix == gpsfix2str(data.gpsFix)
             IN  [self |-> s, exc |-> "none",
                  calls |-> <<update_banner([dop |-> s.pdop, fix |-> fix,
                                             sip |-> s.sip])>>]

\* The assignments of _process_NAV_DOP, in order.
DOP_assignments ==
    <<Step("pdop", "pDOP", "div", 100),
      Step("hdop", "hDOP", "div", 100),
      Step("vdop", "vDOP", "div", 100)>>

_process_NAV_DOP(data) ==
    LET r == Assign(self, data, DOP_assignments)
        s == r.self
    IN  IF r.exc # "none"
        THEN [self |-> s, calls |-> <<>>, exc |-> Caught(r.exc)]
        ELSE [self |-> s, exc |-> "none",
              calls |-> <<update_banner([dop |-> s.pdop, hdop |-> s.hdop,
                                         vdop |-> s.vdop])>>]

(***************************************************************************)
(* The dispatcher.                                                         *)
(***************************************************************************)
\* A console update that shows the parsed message whatever the raw setting.
_update_console_parsed_only(raw_data, parsed_data) ==
    <<update_console(Str("UBXMessage", parsed_data))>>

_update_console(raw_data, parsed_data) ==
    IF settings.raw
    THEN <<update_console(Str("bytes", raw_data))>>
    ELSE <<update_console(Str("UBXMessage", parsed_data))>>

\* A dispatcher whose last branch refreshes the banner for any other message.
Handle_with_default(parsed_data) ==
    CASE parsed_data.identity = "CFG-MSG" -> _process_CFG_MSG(parsed_data)
      [] parsed_data.identity = "CFG-PRT" -> _process_CFG_PRT(parsed_data)
      [] parsed_data.identity = "CFG-INF" -> _process_CFG_INF(parsed_data)
      [] parsed_data.identity = "NAV-POSLLH" -> _process_NAV_POSLLH(parsed_data)
      [] parsed_data.identity = "NAV-PVT" -> _process_NAV_PVT(parsed_data)
      [] parsed_data.identity = "NAV-VELNED" -> _process_NAV_VELNED(parsed_data)
      [] parsed_data.identity = "NAV-SVINFO" -> _process_NAV_SVINFO(parsed_data)
      [] parsed_data.identity = "NAV-SOL" -> _process_NAV_SOL(parsed_data)
      [] parsed_data.identity = "NAV-DOP" -> _process_NAV_DOP(parsed_data)
      [] OTHER -> [self |-> self, exc |-> "none",
                   calls |-> <<update_banner([lat |-> self.lat, lon |-> self.lon])>>]

\* A dispatcher that sends a NAV-SOL message to the NAV-DOP handler as well.
DispatchTable_sol_twice ==
    << <<"CFG-MSG", "_process_CFG_MSG">>,
       <<"CFG-PRT", "_process_CFG_PRT">>,
       <<"CFG-INF", "_process_CFG_INF">>,
       <<"NAV-POSLLH", "_process_NAV_POSLLH">>,
       <<"NAV-PVT", "_process_NAV_PVT">>,
       <<"NAV-VELNED", "_process_NAV_VELNED">>,
       <<"NAV-SVINFO", "_process_NAV_SVINFO">>,
       <<"NAV-SOL", "_process_NAV_SOL">>,
       <<"NAV-SOL", "_process_NAV_DOP">> >>

\* The identity tests of process_data, in order, and the method each one runs.
DispatchTable ==
    << <<"CFG-MSG", "_process_CFG_MSG">>,
       <<"CFG-PRT", "_process_CFG_PRT">>,
       <<"CFG-INF", "_process_CFG_INF">>,
       <<"NAV-POSLLH", "_process_NAV_POSLLH">>,
       <<"NAV-PVT", "_process_NAV_PVT">>,
       <<"NAV-VELNED", "_process_NAV_VELNED">>,
       <<"NAV-SVINFO", "_process_NAV_SVINFO">>,
       <<"NAV-SOL", "_process_NAV_SOL">>,
       <<"NAV-DOP", "_process_NAV_DOP">> >>

\* The methods whose test the message's identity passes, in the tests' order.
Invoked(parsed_data) ==
    LET hit == SelectSeq(DispatchTable, LAMBDA e : e[1] = parsed_data.identity)
    IN  [i \in 1..Len(hit) |-> hit[i][2]]

Run(handler, data) ==
    CASE handler = "_process_CFG_MSG" -> _process_CFG_MSG(data)
      [] handler = "_process_CFG_PRT" -> _process_CFG_PRT(data)
      [] handler = "_process_CFG_INF" -> _process_CFG_INF(data)
      [] handler = "_process_NAV_POSLLH" -> _process_NAV_POSLLH(data)
      [] handler = "_process_NAV_PVT" -> _process_NAV_PVT(data)
      [] handler = "_process_NAV_VELNED" -> _process_NAV_VELNED(data)
      [] handler = "_process_NAV_SVINFO" -> _process_NAV_SVINFO(data)
      [] handler = "_process_NAV_SOL" -> _process_NAV_SOL(data)
      [] handler = "_process_NAV_DOP" -> _process_NAV_DOP(data)

\* The handler process_data runs for a parsed message; a message of no
\* registered identity runs none.  The nine tests compare one identity with
\* nine different strings, so at most one of them passes.
Handle(parsed_data) ==
    LET handlers == Invoked(parsed_data)
    IN  IF handlers = <<>>
        THEN [self |-> self, calls |-> <<>>, exc |-> "none"]
        ELSE Run(handlers[1], parsed_data)

\* process_data validating the frame only after its handler has run.
Outcome_validating_late(data) ==
    LET p == parse(data)
        h == Handle(data.msg)
    IN  IF h.exc # "none"
        THEN [self |-> h.self, calls |-> h.calls, result |-> h.exc,
              trace |-> Invoked(data.msg)]
        ELSE IF p.exc # "none"
        THEN [self |-> h.self, calls |-> h.calls, result |-> p.exc,
              trace |-> Invoked(data.msg)]
        ELSE [self |-> h.self,
              calls |-> h.calls \o _update_console(data, data.msg),
              result |-> "returned",
              trace |-> Invoked(data.msg) \o <<"_update_console">>]

\* One call of process_data: the object it leaves, the collaborator calls it
\* made and how it ended.  An exception of the parser or of a handler ends
\* the call where it is raised.
\* The test `data or parsed_data` before the console update holds for every
\* parsed message (an object is truthy).
Outcome(data) ==
    LET p == parse(data)
    IN  IF p.exc # "none"
        THEN [self |-> self, calls |-> <<>>, result |-> p.exc, trace |-> <<>>]
        ELSE LET h == Handle(p.msg)
             IN  IF h.exc # "none"
                 THEN [self |-> h.self, calls |-> h.calls, result |-> h.exc,
                       trace |-> Invoked(p.msg)]
                 ELSE [self |-> h.self,
                       calls |-> h.calls \o _update_console(data, p.msg),
                       result |-> "returned",
                       trace |-> Invoked(p.msg) \o <<"_update_console">>]

\* The writes of one call of poll_ubx_config, in order.
UBXMessage(msgClass, msgID, payload, mode) ==
    [msgClass |-> msgClass, msgID |-> msgID, payload |-> payload, mode |-> mode]

serialize(msg) == Str("bytes", msg)

\* A poll whose CFG-INF request goes out before the message-rate requests.
PollWrites_inf_first ==
    [i \in 1..2 |-> serialize(UBXMessage("CFG", <<"CFG-PRT", "CFG-USB">>[i], <<>>, "POLL"))]
    \o <<serialize(UBXMessage("CFG", "CFG-INF", <<0>>, "POLL"))>>
    \o [i \in 1..Len(CatalogKeys) |->
            serialize(UBXMessage("CFG", "CFG-MSG", CatalogKeys[i], "POLL"))]

PollWrites ==
    [i \in 1..2 |-> serialize(UBXMessage("CFG", <<"CFG-PRT", "CFG-USB">>[i], <<>>, "POLL"))]
    \o [i \in 1..Len(CatalogKeys) |->
            serialize(UBXMessage("CFG", "CFG-MSG", CatalogKeys[i], "POLL"))]
    \o <<serialize(UBXMessage("CFG", "CFG-INF", <<0>>, "POLL"))>>

\* Calls of poll_ubx_config so far.
npolls == Len(serial) \div Len(PollWrites)

\* The handler object at the moment of the i-th collaborator call of the
\* latest process_data.  Every handler makes its calls after its last
\* assignment, but _process_NAV_SVINFO, which calls update_banner after
\* emptying gsv_data and before appending the records.
state_at_call(i) ==
    IF parse(last_data).exc = "none" /\ last_data.msg.identity = "NAV-SVINFO" /\ i = 1
    THEN [self EXCEPT !.gsv_data = <<>>]
    ELSE self

process_data(data) ==
    /\ nframes + npolls < MaxFrames
    /\ nframes' = nframes + 1
    /\ last_data' = data
    /\ repeated' = (nframes > 0 /\ data = last_data)
    /\ LET o == Outcome(data)
       IN  /\ self' = o.self
           /\ calls' = o.calls
           /\ trace' = o.trace
           /\ result' = o.result
    /\ UNCHANGED <<settings, serial>>

\* A poll that forgets the stored configuration before asking for it again.
poll_ubx_config_resetting ==
    /\ nframes + npolls < MaxFrames
    /\ serial' = serial \o PollWrites
    /\ self' = [self EXCEPT !.ubx_state = <<>>]
    /\ UNCHANGED <<settings, calls, trace, result, last_data, repeated, nframes>>

\* poll_ubx_config(serial): a static method, it has no handler object.
poll_ubx_config ==
    /\ nframes + npolls < MaxFrames
    /\ serial' = serial \o PollWrites
    /\ UNCHANGED <<self, settings, calls, trace, result, last_data, repeated,
                   nframes>>

\* The user changes the settings between two frames.
set_settings(raw, webmap) ==
    /\ settings # [raw |-> raw, webmap |-> webmap]
    /\ settings' = [raw |-> raw, webmap |-> webmap]
    /\ UNCHANGED <<self, calls, trace, result, last_data, repeated, nframes,
                   serial>>

\* UBXHandler.__init__
Init ==
    /\ self = [_raw_data |-> "None", _parsed_data |-> "None", gsv_data |-> <<>>,
               lon |-> Num(0), lat |-> Num(0), alt |-> Num(0), track |-> Num(0),
               speed |-> Num(0), pdop |-> Num(0), hdop |-> Num(0),
               vdop |-> Num(0), hacc |-> Num(0), vacc |-> Num(0), utc |-> <<>>,
               sip |-> Num(0), fix |-> "-", ubx_state |-> <<>>]
    /\ settings \in [raw : BOOLEAN, webmap : BOOLEAN]
    /\ calls = <<>>
    /\ trace = <<>>
    /\ result = "none"
    /\ last_data = Frame(TRUE, TRUE, [identity |-> "UNKNOWN"] @@ Sound)
    /\ repeated = FALSE
    /\ nframes = 0
    /\ serial = <<>>

Next ==
    \/ \E data \in Frames : process_data(data)
    \/ poll_ubx_config
    \/ \E raw, webmap \in BOOLEAN : set_settings(raw, webmap)

Spec == Init /\ [][Next]_vars

(***************************************************************************)
(* Properties.                                                             *)
(***************************************************************************)
ConfigIdentities == {"CFG-MSG", "CFG-INF", "CFG-PRT"}
FixIdentities == {"NAV-POSLLH", "NAV-PVT", "NAV-VELNED", "NAV-SOL", "NAV-DOP"}
NavigationIdentities == FixIdentities \cup {"NAV-SVINFO"}
RegisteredIdentities == ConfigIdentities \cup NavigationIdentities

NavigationState == {"utc", "lat", "lon", "alt", "hacc", "vacc", "pdop", "hdop",
                    "vdop", "speed", "track", "sip"}

\* This step is a call of process_data; last_data' is its frame.
Called == nframes' = nframes + 1

Parsed(data) == parse(data).exc = "none"

\* The frame decodes to a message of one of these identities.
Carries(data, identities) == Parsed(data) /\ data.msg.identity \in identities

\* The handler of the message fails on one of its attributes.
Failing(data) ==
    \/ data.msg.err # "none"
    \/ /\ data.msg.identity = "CFG-MSG"
       /\ <<data.msg.msgClass, data.msg.msgID>> \notin DOMAIN UBX_CONFIG_MESSAGES

\* The stored number x is n / d.
IsRatio(x, n, d) == x[2] > 0 /\ x[1] * d = n * x[2]

ConsoleCalls == {i \in 1..Len(calls) : calls[i].fn = "update_console"}

\* C1: when one field of a NAV-POSLLH, NAV-PVT, NAV-VELNED, NAV-SOL or NAV-DOP
\* message fails to extract or convert, every NavigationState field keeps the
\* value it had before the call.
C1_FailedFixMessageKeepsNavigationState ==
    [][(Called /\ Carries(last_data', FixIdentities) /\ Failing(last_data'))
        => \A f \in NavigationState : self'[f] = self[f]]_vars

\* C2: a frame that fails parsing ends process_data with the framing error,
\* runs no handler and leaves ubx_state, NavigationState and gsv_data as they
\* were.
C2_UnparsedFrameChangesNothing ==
    [][(Called /\ ~Parsed(last_data'))
        => (result' = "FramingError" /\ self' = self /\ calls' = <<>>)]_vars

C2_Witness ==
    /\ result = "FramingError"
    /\ ~last_data.ck
    /\ self.lat # Num(0)

\* C3: every call of process_data, whether parsing and handling succeed or
\* fail, makes exactly one console update, of its own frame, after the
\* handler's calls.
C3_ConsoleUpdatedOncePerCall ==
    nframes > 0 =>
        /\ ConsoleCalls = {Len(calls)}
        /\ Len(calls) > 0
        /\ calls[Len(calls)].args[1].of \in {last_data, last_data.msg}

\* C4: when a config handler fails on a field (a CFG-MSG of uncatalogued
\* class+id included), ubx_state is unchanged and process_data returns
\* normally.
C4_FailedConfigMessageIsSuppressed ==
    [][(Called /\ Carries(last_data', ConfigIdentities) /\ Failing(last_data'))
        => (self'.ubx_state = self.ubx_state /\ result' = "returned")]_vars

\* C5: a failure inside a navigation handler never escapes process_data, and
\* the handler object is left as if the failed frame had not arrived.
C5_FailedNavigationMessageIsContained ==
    [][(Called /\ Carries(last_data', NavigationIdentities) /\ Failing(last_data'))
        => (result' = "returned" /\ self' = self)]_vars

\* C6: after a successfully handled NAV-SVINFO message of count N, gsv_data is
\* exactly the N records of the message in order, whatever it held before, and
\* update_sats and update_graph were given that list and N.
C6_SatelliteListIsTheMessage ==
    (nframes > 0 /\ Carries(last_data, {"NAV-SVINFO"}) /\ ~Failing(last_data)) =>
        LET m == last_data.msg
        IN  /\ Len(self.gsv_data) = m.numCh
            /\ \A i \in 1..m.numCh :
                  self.gsv_data[i] = <<m.sv[i].svid, m.sv[i].elev,
                                       m.sv[i].azim, m.sv[i].cno>>
            /\ Len(calls) = 4
            /\ calls[2] = update_sats(self.gsv_data)
            /\ calls[3] = update_graph(self.gsv_data, m.numCh)

C6_Witness ==
    /\ nframes = 2
    /\ result = "returned"
    /\ last_data.msg = NAV_SVINFO(2, 1) @@ Sound
    /\ self.gsv_data = << <<21, 17, 92, 33>> >>
    /\ calls[3] = update_graph(<< <<21, 17, 92, 33>> >>, 1)

\* C7: gsv_data only ever changes by being replaced, whole, with the complete
\* list of a satellite-info message; a satellite-info message whose handling
\* fails leaves the previous list as it was.
C7_SatelliteListReplacedAtomically ==
    [][Called =>
        \/ self'.gsv_data = self.gsv_data
        \/ /\ Carries(last_data', {"NAV-SVINFO"})
           /\ ~Failing(last_data')
           /\ Len(self'.gsv_data) = last_data'.msg.numCh]_vars

\* C8: processing a config response a second time in a row leaves ubx_state
\* as the first time left it.
C8_ConfigResponseIdempotent ==
    [][(Called /\ repeated' /\ Carries(last_data', ConfigIdentities))
        => self'.ubx_state = self.ubx_state]_vars

C8_Witness ==
    /\ repeated
    /\ result = "returned"
    /\ last_data.msg = CFG_MSG(<<1, 7>>, 2) @@ Sound
    /\ DOMAIN self.ubx_state = {"NAV-PVT"}
    /\ self.ubx_state["NAV-PVT"] = <<2, 3, 0, 2, 0, 0>>

\* C9: NAV-DOP and NAV-SOL store raw pDOP / 100, NAV-PVT stores raw pDOP as
\* it is, and no message of another kind touches pdop: the stored value is
\* that of the last of these messages.  NAV-DOP with raw 250 and then NAV-PVT
\* with raw 999 leaves pdop = 999.
C9_StoredDopIsTheLastWriters ==
    [][Called =>
        IF Carries(last_data', {"NAV-PVT"}) /\ ~Failing(last_data')
        THEN IsRatio(self'.pdop, last_data'.msg.pDOP, 1)
        ELSE IF Carries(last_data', {"NAV-DOP", "NAV-SOL"}) /\ ~Failing(last_data')
        THEN IsRatio(self'.pdop, last_data'.msg.pDOP, 100)
        ELSE Carries(last_data', {"NAV-PVT", "NAV-DOP", "NAV-SOL"})
             \/ self'.pdop = self.pdop]_vars

C9_Witness ==
    /\ last_data.msg.identity = "NAV-PVT"
    /\ last_data.msg.err = "none"
    /\ last_data.msg.pDOP = 999
    /\ self.pdop = <<999, 1>>
    /\ IsRatio(self.hdop, 120, 100)
    /\ Raw.pDOP[1] = 250

\* C10: a validly framed message of no registered identity runs no handler:
\* the handler object is unchanged and the one collaborator call is the
\* console update.
C10_UnregisteredIdentityOnlyEchoed ==
    [][(Called /\ Parsed(last_data')
            /\ last_data'.msg.identity \notin RegisteredIdentities)
        => /\ self' = self
           /\ result' = "returned"
           /\ Len(calls') = 1
           /\ calls'[1].fn = "update_console"]_vars

C10_Witness ==
    /\ result = "returned"
    /\ last_data.msg.identity = "UNKNOWN"
    /\ self.lat # Num(0)
    /\ Len(calls) = 1

\* The j-th write to the serial port is the poll request of this message id
\* and payload.
IsPoll(j, msgID, payload) ==
    /\ serial[j].type = "bytes"
    /\ serial[j].of.msgClass = "CFG"
    /\ serial[j].of.msgID = msgID
    /\ serial[j].of.mode = "POLL"
    /\ serial[j].of.payload = payload

\* C11: each call of poll_ubx_config writes, in this order, one CFG-PRT poll,
\* one CFG-USB poll, one CFG-MSG poll per catalog entry in the catalog's
\* order and one CFG-INF poll, 3 + |catalog| writes in all, and every call
\* writes the same sequence.
C11_PollWritesTheCatalogOnce ==
    LET n == 3 + Len(CatalogKeys)
    IN  /\ Len(serial) % n = 0
        /\ \A b \in 0..((Len(serial) \div n) - 1) :
              /\ IsPoll(b * n + 1, "CFG-PRT", <<>>)
              /\ IsPoll(b * n + 2, "CFG-USB", <<>>)
              /\ \A i \in 1..Len(CatalogKeys) :
                    IsPoll(b * n + 2 + i, "CFG-MSG", CatalogKeys[i])
              /\ IsPoll(b * n + n, "CFG-INF", <<0>>)
              /\ SubSeq(serial, b * n + 1, b * n + n) = SubSeq(serial, 1, n)

C11_Witness ==
    /\ Len(serial) = 2 * (3 + Len(CatalogKeys))
    /\ serial[3].of.payload # serial[4].of.payload

\* The NavigationState fields the handler of a message of this identity writes.
Row(identity) ==
    CASE identity = "NAV-POSLLH" -> {"utc", "lat", "lon", "alt", "hacc", "vacc"}
      [] identity = "NAV-PVT" -> {"utc", "lat", "lon", "alt", "hacc", "vacc",
                                  "pdop", "sip", "speed", "track"}
      [] identity = "NAV-VELNED" -> {"track", "speed"}
      [] identity = "NAV-SOL" -> {"pdop", "sip"}
      [] identity = "NAV-DOP" -> {"pdop", "hdop", "vdop"}
      [] OTHER -> {}

\* The stored number x is n / d, for a d too large to cross-multiply by.
IsQuotient(x, n, d) ==
    /\ x[2] > 0
    /\ d % x[2] = 0
    /\ n % (d \div x[2]) = 0
    /\ x[1] = n \div (d \div x[2])

\* The stored value x of field f is the one derived from message msg.
DerivedFrom(f, x, msg) ==
    CASE f = "utc" -> x = itow2utc(msg.iTOW)
      [] f = "lat" -> IsQuotient(x, msg.lat, 10 ^ 7)
      [] f = "lon" -> IsQuotient(x, msg.lon, 10 ^ 7)
      [] f = "alt" -> IsQuotient(x, msg.hMSL, 1000)
      [] f = "hacc" -> IsQuotient(x, msg.hAcc, 1000)
      [] f = "vacc" -> IsQuotient(x, msg.vAcc, 1000)
      [] f = "pdop" -> IsQuotient(x, msg.pDOP, IF msg.identity = "NAV-PVT" THEN 1 ELSE 100)
      [] f = "hdop" -> IsQuotient(x, msg.hDOP, 100)
      [] f = "vdop" -> IsQuotient(x, msg.vDOP, 100)
      [] f = "sip" -> IsQuotient(x, msg.numSV, 1)
      [] f = "speed" -> IsQuotient(x, msg.gSpeed, 100)
      [] f = "track" -> IsQuotient(x, IF msg.identity = "NAV-PVT" THEN msg.headMot
                                                                 ELSE msg.heading, 10 ^ 5)

\* The ubx_state key a config message is stored under, and the tuple stored.
ConfigKey(msg) ==
    IF msg.identity = "CFG-MSG" THEN UBX_CONFIG_MESSAGES[<<msg.msgClass, msg.msgID>>]
    ELSE msg.identity

ConfigTuple(msg) ==
    CASE msg.identity = "CFG-MSG" -> <<msg.rateDDC, msg.rateUART1, msg.rateUART2,
                                       msg.rateUSB, msg.rateSPI, msg.reserved>>
      [] msg.identity = "CFG-INF" -> <<msg.infMsgMaskDDC, msg.infMsgMaskUART1,
                                       msg.infMsgMaskUART2, msg.infMsgMaskUSB,
                                       msg.infMsgMaskSPI>>
      [] msg.identity = "CFG-PRT" -> <<msg.mode, msg.baudRate, msg.inProtoMask,
                                       msg.outProtoMask>>

\* Dict d1 is dict d0 but for the keys in `keys`.
SameBut(d1, d0, keys) ==
    /\ (DOMAIN d1) \cup keys = (DOMAIN d0) \cup keys
    /\ \A k \in (DOMAIN d0) \ keys : d1[k] = d0[k]

\* C12: frames decoded and handled without failure, processed in arrival
\* order, leave a last-writer-wins state: after each frame every ubx_state
\* key, every NavigationState field and the satellite list the frame's handler
\* writes hold the value of that frame, and every other key and field holds
\* what the frames before left (the initial value if none wrote it).
C12_LastWriterWins ==
    [][(Called /\ Parsed(last_data') /\ ~Failing(last_data'))
        => LET msg == last_data'.msg
           IN  /\ \A f \in NavigationState :
                     IF f \in Row(msg.identity)
                     THEN DerivedFrom(f, self'[f], msg)
                     ELSE self'[f] = self[f]
               /\ IF msg.identity = "NAV-SVINFO"
                  THEN self'.gsv_data = [i \in 1..msg.numCh |->
                                            <<msg.sv[i].svid, msg.sv[i].elev,
                                              msg.sv[i].azim, msg.sv[i].cno>>]
                  ELSE self'.gsv_data = self.gsv_data
               /\ IF msg.identity \in ConfigIdentities
                  THEN /\ ConfigKey(msg) \in DOMAIN self'.ubx_state
                       /\ self'.ubx_state[ConfigKey(msg)] = ConfigTuple(msg)
                       /\ SameBut(self'.ubx_state, self.ubx_state, {ConfigKey(msg)})
                  ELSE SameBut(self'.ubx_state, self.ubx_state, {})]_vars

\* A NAV-VELNED frame after a NAV-PVT frame: speed is the later frame's,
\* latitude still the earlier one's.
C12_Witness ==
    /\ nframes = 2
    /\ last_data.msg.identity = "NAV-VELNED"
    /\ last_data.msg.err = "none"
    /\ IsQuotient(self.speed, Raw.gSpeed[2], 100)
    /\ IsQuotient(self.lat, Raw.lat[1], 10 ^ 7)
    /\ IsQuotient(self.pdop, Raw.pDOP[1], 1)

BannerCalls(cs) == {i \in 1..Len(cs) : cs[i].fn = "update_banner"}

\* The stored field a banner keyword shows.
BannerField(k) == CASE k = "time" -> "utc" [] k = "dop" -> "pdop" [] OTHER -> k

\* The value v passed to update_banner under keyword k was computed from msg.
Computed(k, v, msg) ==
    CASE k = "siv" -> msg.identity = "NAV-SVINFO" /\ v = msg.numCh
      [] k = "fix" -> \/ msg.identity = "NAV-PVT" /\ v = gpsfix2str(msg.fixType)
                      \/ msg.identity = "NAV-SOL" /\ v = gpsfix2str(msg.gpsFix)
      [] OTHER -> /\ BannerField(k) \in Row(msg.identity)
                  /\ DerivedFrom(BannerField(k), v, msg)

\* C13: a navigation handler changes only the NavigationState fields of its
\* own row (NAV-VELNED track and speed; NAV-DOP pdop, hdop, vdop; NAV-SOL pdop
\* and sip; NAV-POSLLH utc, lat, lon, alt, hacc, vacc; NAV-PVT those six and
\* pdop, sip, speed, track; NAV-SVINFO the satellite list only), and every
\* value it passes to update_banner was computed from the current message.
C13_HandlerWritesOnlyItsRow ==
    [][(Called /\ Carries(last_data', NavigationIdentities))
        => LET msg == last_data'.msg
           IN  /\ \A f \in NavigationState \ Row(msg.identity) : self'[f] = self[f]
               /\ self'.fix = self.fix
               /\ msg.identity = "NAV-SVINFO" \/ self'.gsv_data = self.gsv_data
               /\ \A i \in BannerCalls(calls') :
                     \A k \in DOMAIN calls'[i].args :
                         Computed(k, calls'[i].args[k], msg)]_vars

\* A NAV-SOL frame after a NAV-PVT frame: position and speed are still the
\* earlier frame's, the banner got the DOP, satellite count and fix of NAV-SOL.
C13_Witness ==
    /\ nframes = 2
    /\ last_data.msg.identity = "NAV-SOL"
    /\ last_data.msg.err = "none"
    /\ IsQuotient(self.lat, Raw.lat[1], 10 ^ 7)
    /\ IsQuotient(self.speed, Raw.gSpeed[1], 100)
    /\ IsQuotient(self.pdop, Raw.pDOP[2], 100)
    /\ BannerCalls(calls) = {1}
    /\ DOMAIN calls[1].args = {"dop", "fix", "sip"}
    /\ calls[1].args.fix = "2D"

\* C14: after a successfully handled NAV-PVT or NAV-SOL message the stored fix
\* (self.fix) is the fix string decoded from that message's fix-type code.
C14_StoredFixIsTheDecodedFix ==
    (nframes > 0 /\ Carries(last_data, {"NAV-PVT", "NAV-SOL"}) /\ ~Failing(last_data))
        => self.fix = gpsfix2str(IF last_data.msg.identity = "NAV-PVT"
                                 THEN last_data.msg.fixType
                                 ELSE last_data.msg.gpsFix)

\* The handler method registered for each of the nine identities.
HandlerOf(identity) ==
    CASE identity = "CFG-MSG" -> "_process_CFG_MSG"
      [] identity = "CFG-PRT" -> "_process_CFG_PRT"
      [] identity = "CFG-INF" -> "_process_CFG_INF"
      [] identity = "NAV-POSLLH" -> "_process_NAV_POSLLH"
      [] identity = "NAV-PVT" -> "_process_NAV_PVT"
      [] identity = "NAV-VELNED" -> "_process_NAV_VELNED"
      [] identity = "NAV-SVINFO" -> "_process_NAV_SVINFO"
      [] identity = "NAV-SOL" -> "_process_NAV_SOL"
      [] identity = "NAV-DOP" -> "_process_NAV_DOP"

\* The positions of `trace` at which a handler, not the console update, ran.
HandlerRuns == {i \in 1..Len(trace) : trace[i] # "_update_console"}

\* C15: for a parsed message process_data invokes at most one of the nine
\* handlers; for a message of a registered identity it invokes that identity's
\* handler, once, and before the console update.
C15_ExactlyOneHandler ==
    (nframes > 0 /\ Parsed(last_data)) =>
        /\ Cardinality(HandlerRuns) <= 1
        /\ last_data.msg.identity \in RegisteredIdentities =>
              /\ HandlerRuns = {1}
              /\ trace[1] = HandlerOf(last_data.msg.identity)
        /\ \A i \in 1..Len(trace) : trace[i] = "_update_console" => i = Len(trace)

C15_Witness ==
    /\ last_data.msg.identity = "NAV-SOL"
    /\ trace = <<"_process_NAV_SOL", "_update_console">>
    /\ Len(calls) = 2
    /\ self.hdop # Num(0)

MapCalls(cs) == {i \in 1..Len(cs) : cs[i].fn = "update_map"}

\* C16: a successfully handled NAV-POSLLH or NAV-PVT message makes exactly one
\* update_map call, right after its update_banner call, with the lat, lon,
\* hacc and vacc just stored from that message and a centred flag that is
\* false when the settings' webmap flag is set at that moment and true
\* otherwise; the handler stores nothing of the flag.  No other message makes
\* an update_map call.
C16_MapFollowsPositionMessages ==
    [][Called =>
        LET msg == last_data'.msg
        IN  IF Carries(last_data', {"NAV-POSLLH", "NAV-PVT"}) /\ ~Failing(last_data')
            THEN /\ MapCalls(calls') = {2}
                 /\ calls'[1].fn = "update_banner"
                 /\ calls'[2].args = <<self'.lat, self'.lon, self'.hacc, self'.vacc,
                                       "3D", ~settings.webmap>>
                 /\ IsQuotient(calls'[2].args[1], msg.lat, 10 ^ 7)
                 /\ IsQuotient(calls'[2].args[2], msg.lon, 10 ^ 7)
                 /\ IsQuotient(calls'[2].args[3], msg.hAcc, 1000)
                 /\ IsQuotient(calls'[2].args[4], msg.vAcc, 1000)
                 /\ DOMAIN self' = DOMAIN self
                 /\ \A f \in (DOMAIN self) \ Row(msg.identity) : self'[f] = self[f]
            ELSE MapCalls(calls') = {}]_vars

\* The second of two position messages, handled with the webmap flag set.
C16_Witness ==
    /\ nframes = 2
    /\ settings.webmap
    /\ last_data.msg.identity = "NAV-POSLLH"
    /\ MapCalls(calls) = {2}
    /\ calls[2].args[6] = FALSE
    /\ IsQuotient(calls[2].args[1], Raw.lat[2], 10 ^ 7)
    /\ IsQuotient(self.speed, Raw.gSpeed[1], 100)

\* C17: every console update consults the settings anew: its text is the text
\* of the raw bytes when the raw flag is set at that moment and the text of
\* the parsed message otherwise, whatever the flag was for the frame before;
\* the handler caches neither the flag nor the data (_raw_data and
\* _parsed_data stay None).
C17_ConsoleFollowsCurrentRawFlag ==
    [][Called =>
        /\ self'._raw_data = "None"
        /\ self'._parsed_data = "None"
        /\ DOMAIN self' = DOMAIN self
        /\ result' = "returned" =>
              LET text == calls'[Len(calls')].args[1]
              IN  /\ calls'[Len(calls')].fn = "update_console"
                  /\ IF settings.raw
                     THEN text.type = "bytes" /\ text.of = last_data'
                     ELSE text.type = "UBXMessage" /\ text.of = last_data'.msg]_vars

\* The raw flag set after a frame was echoed as a parsed message: the next
\* frame is echoed as raw bytes.
C17_Witness ==
    /\ nframes = 1
    /\ result = "returned"
    /\ calls[Len(calls)].args[1].type = "UBXMessage"
    /\ settings.raw
    /\ self._raw_data = "None"

\* The message identities the catalog resolves a class+id to.
CatalogTargets == {UBX_CONFIG_MESSAGES[k] : k \in DOMAIN UBX_CONFIG_MESSAGES}

\* C18: the keys of ubx_state are catalog target identities, 'CFG-INF' or
\* 'CFG-PRT', never 'CFG-MSG'; a catalog target holds a 6-tuple, 'CFG-INF' a
\* 5-tuple and 'CFG-PRT' a 4-tuple; a config message changes at most the one
\* key it is stored under.
C18_ConfigStoreShape ==
    [][Called =>
        LET d == self'.ubx_state
        IN  /\ DOMAIN d \subseteq CatalogTargets \cup {"CFG-INF", "CFG-PRT"}
            /\ "CFG-MSG" \notin DOMAIN d
            /\ \A k \in DOMAIN d :
                  Len(d[k]) = CASE k = "CFG-INF" -> 5 [] k = "CFG-PRT" -> 4 [] OTHER -> 6
            /\ IF Carries(last_data', ConfigIdentities) /\ ~Failing(last_data')
               THEN SameBut(d, self.ubx_state, {ConfigKey(last_data'.msg)})
               ELSE SameBut(d, self.ubx_state, {})]_vars

\* A CFG-MSG response stored under its target next to a CFG-PRT entry.
C18_Witness ==
    /\ nframes = 2
    /\ last_data.msg.identity = "CFG-MSG"
    /\ DOMAIN self.ubx_state = {"CFG-PRT", "NAV-PVT"}
    /\ Len(self.ubx_state["NAV-PVT"]) = 6
    /\ self.ubx_state["CFG-PRT"] = <<2241, 9600, 1, 3>>

PresentationCalls(cs) ==
    {i \in 1..Len(cs) :
        cs[i].fn \in {"update_banner", "update_map", "update_sats", "update_graph"}}

\* The values call c passes that show a stored field are those of object s.
PassesStored(c, s) ==
    CASE c.fn = "update_banner" ->
            \A k \in DOMAIN c.args :
                BannerField(k) \in NavigationState => c.args[k] = s[BannerField(k)]
      [] c.fn = "update_map" ->
            <<c.args[1], c.args[2], c.args[3], c.args[4]>>
                = <<s.lat, s.lon, s.hacc, s.vacc>>
      [] c.fn \in {"update_sats", "update_graph"} -> c.args[1] = s.gsv_data

\* Object s holds what the handler of msg stores from it.
UpdatedFrom(s, msg) ==
    /\ \A f \in Row(msg.identity) : DerivedFrom(f, s[f], msg)
    /\ msg.identity = "NAV-SVINFO" =>
          s.gsv_data = [i \in 1..msg.numCh |-> <<msg.sv[i].svid, msg.sv[i].elev,
                                                msg.sv[i].azim, msg.sv[i].cno>>]

\* C19: at every update_banner, update_map, update_sats and update_graph call
\* of a navigation handler the handler's stored state has already been updated
\* from the current message, and every value passed that shows a stored field
\* equals that field at the moment of the call.
C19_StateUpdatedBeforeNotifying ==
    (nframes > 0 /\ Carries(last_data, NavigationIdentities) /\ ~Failing(last_data))
        => \A i \in PresentationCalls(calls) :
              /\ UpdatedFrom(state_at_call(i), last_data.msg)
              /\ PassesStored(calls[i], state_at_call(i))

\* This step is a call of poll_ubx_config.
Polled == serial' # serial

\* C20: the two stores are isolated.  A config message changes no
\* NavigationState field nor gsv_data and makes no banner, map, satellite or
\* graph call; a navigation message leaves ubx_state as it was;
\* poll_ubx_config changes neither store, only appends writes to the serial
\* port, and takes nothing from the frames received.
C20_StoresAreIsolated ==
    [][/\ (Called /\ Carries(last_data', ConfigIdentities))
            => /\ \A f \in NavigationState \cup {"fix", "gsv_data"} : self'[f] = self[f]
               /\ PresentationCalls(calls') = {}
       /\ (Called /\ Carries(last_data', NavigationIdentities))
            => SameBut(self'.ubx_state, self.ubx_state, {})
       /\ Called => serial' = serial
       /\ Polled
            => /\ self' = self
               /\ <<calls', trace', result', last_data', nframes'>>
                    = <<calls, trace, result, last_data, nframes>>
               /\ Len(serial') > Len(serial)
               /\ SubSeq(serial', 1, Len(serial)) = serial]_vars

\* A poll made after a CFG-PRT response was stored.
C20_Witness ==
    /\ nframes = 1
    /\ Len(serial) > 0
    /\ last_data.msg.identity = "CFG-PRT"
    /\ DOMAIN self.ubx_state = {"CFG-PRT"}
    /\ self.lat = Num(0)
    /\ calls[Len(calls)].fn = "update_console"

====
